---------------------------- MODULE Spec2Model ----------------------------
(***************************************************************************)
(* KudoMan (src/main.py): a single-instance collector.  Two               *)
(* specifications live in this module:                                     *)
(*                                                                         *)
(*   Spec       collector processes sharing one working directory: the    *)
(*              lock file .kudolock (setup_lockfile, is_lockfile_stale,   *)
(*              doexit), the start-up steps of main and its running loop. *)
(*   SpecStats  one collector's out.csv: log_kudos appends a sample,      *)
(*              update_secondary_stats reads it in chunks, computes MA,   *)
(*              D1 and MAD1 per chunk and rewrites the file in place.     *)
(***************************************************************************)
EXTENDS Integers, Sequences, FiniteSets, TLC

\* ------------------------------------------------------------- bounds
\* Process ids the operating system hands out between two boots.
MaxPid == 2
\* Clock ticks (seconds) that pass after the model starts.
MaxTime == 1
\* SpecStats: rows appended to out.csv, the largest kudos value fetched, the
\* largest configured moving-average window.
MaxRows == 3
MaxKudos == 2
MaxWindow == 3
\* time.time() when the model starts: seconds since 1970, far larger than
\* any lock age or uptime (main.py:123 compares the two).
Epoch == 10

\* SpecBackup: files found in bak.d at start-up, and the distinct st_ctime
\* values they have.
MaxBackups == 4
MaxCtime == 2

Pids == 1..MaxPid

VARIABLES
    pc,          \* pc[p]: where the process with pid p is (main.py line)
    lockfile,    \* LOCKFILE (.kudolock): the inode the path names, its content
    fd,          \* fd[p]: inode p holds open for writing (main.py:153), 0: none
    llock,       \* llock[p]: is_lockfile_stale's parsed record (main.py:118-120)
    lproc,       \* lproc[p]: what psutil.Process(lpid) found (main.py:127)
    start_time,  \* start_time[p] (main.py:152)
    now,         \* time.time()
    boot_time,   \* psutil.boot_time()
    nextPid,     \* the next pid the OS hands out
    exit_how,    \* how the collector that ended last ended
    exit_at,     \* the call of main whose statement ended it
    MAWINDOW,    \* config.MAWINDOW (main.py:48)
    st_pc,       \* SpecStats: where the one collector is in its tick
    out_csv,     \* SpecStats: OUTPUT_FILE (out.csv), header and rows
    final_df,    \* final_df of update_secondary_stats (main.py:235)
    pre_csv,     \* history: out.csv as update_secondary_stats found it
    NUMBACKUPS,  \* config.NUMBACKUPS (main.py:46, after its validator)
    env_NUMBACKUPS, \* NUMBACKUPS as the environment / .env gives it
    bak_d,       \* BACKUP_DIR (bak.d): whether it exists, the files in it
    pre_bak_d    \* history: bak.d as setup_backup_dir found it

lvars == <<pc, lockfile, fd, llock, lproc, start_time, boot_time, nextPid,
           exit_how, exit_at>>
svars == <<MAWINDOW, st_pc, out_csv, final_df, pre_csv>>
bvars == <<NUMBACKUPS, env_NUMBACKUPS, bak_d, pre_bak_d>>
vars == <<lvars, now, svars, bvars>>

\* ------------------------------------------------------------- lock file
\* ino = 0: the path does not exist.  Otherwise ino names the inode (by the
\* pid that created it); written = FALSE is a file that was opened with "wt"
\* (created or truncated) and whose f.write has not happened yet: it is empty.
NoLock == [ino |-> 0, written |-> FALSE, pid |-> 0, start |-> 0]
NoRecord == [pid |-> 0, start |-> 0]

\* Program locations.
SetupPcs == {"sl_exists", "isl_read", "isl_running", "isl_cwd", "sl_unlink",
             "sl_conflict", "sl_doexit", "sl_open", "sl_write"}
StartupPcs == {"check_user", "setup_backup_dir", "create_output_file",
               "backup_output_file"}
LoopPcs == {"fetch_kudos", "log_kudos", "sleep"}
\* A process that has returned from setup_lockfile and has not exited.
OwnerPcs == StartupPcs \cup LoopPcs
CollectorPcs == {"config"} \cup SetupPcs \cup OwnerPcs
\* pc[p] = "none": pid p is not in use since the boot; "gone": the process
\* ended.  exit_how tells how the collector that ended last did: by its own
\* code (doexit, main.py:109; an exception nobody catches; a
\* KeyboardInterrupt nobody catches; the exit() of main.py:95) or "killed"
\* from outside.
OwnExits == {"doexit", "traceback", "interrupt", "config_error"}

\* What psutil sees of pid q: a collector in this working directory, an
\* unrelated process elsewhere, or no such process.
ProcState(q) ==
    IF q \notin Pids THEN "absent"
    ELSE IF pc[q] \in CollectorPcs THEN "here"
    ELSE IF pc[q] = "foreign" THEN "elsewhere"
    ELSE "absent"

\* A store with the header create_output_file writes and no row.
EmptyStore == [header |-> 2, rows |-> << >>]

\* Out.csv does not exist (header = -1); an existing file has header = the
\* number of columns its header line names, 0 when it has no header line.
NoStore == [header |-> -1, rows |-> << >>]

\* ------------------------------------------------------------- config
\* main.py:46 and 74: the default of NUMBACKUPS, also what the validator
\* substitutes.
DEFAULT_NUMBACKUPS == 10

\* main.py:70-75.
check_backups_num(v) == IF v < 0 THEN DEFAULT_NUMBACKUPS ELSE v

\* bak.d does not exist.
NoBackupDir == [exists |-> FALSE, files |-> {}]

\* The settings of a run with no NUMBACKUPS in the environment, in a
\* directory with no bak.d.
InitBackupDir ==
    /\ env_NUMBACKUPS = DEFAULT_NUMBACKUPS
    /\ NUMBACKUPS = check_backups_num(env_NUMBACKUPS)
    /\ bak_d = NoBackupDir
    /\ pre_bak_d = NoBackupDir

InitLock ==
    /\ pc = [p \in Pids |-> "none"]
    /\ lockfile = NoLock
    /\ fd = [p \in Pids |-> 0]
    /\ llock = [p \in Pids |-> NoRecord]
    /\ lproc = [p \in Pids |-> "absent"]
    /\ start_time = [p \in Pids |-> 0]
    /\ boot_time = Epoch
    /\ nextPid = 1
    /\ exit_how = "none"
    /\ exit_at = "none"

InitStore ==
    /\ st_pc = "log_kudos"
    /\ out_csv = EmptyStore
    /\ final_df = << >>
    /\ pre_csv = EmptyStore

Init ==
    /\ InitLock
    /\ now = Epoch
    /\ InitStore
    /\ MAWINDOW = 2
    /\ InitBackupDir

\* Locals of setup_lockfile, dropped when the process leaves it.
Forget(p) ==
    /\ fd' = [fd EXCEPT ![p] = 0]
    /\ llock' = [llock EXCEPT ![p] = NoRecord]
    /\ lproc' = [lproc EXCEPT ![p] = "absent"]
    /\ start_time' = [start_time EXCEPT ![p] = 0]

Env == <<now, boot_time, nextPid, svars, bvars>>
Locals == <<fd, llock, lproc, start_time>>

\* The call of main a program location belongs to.  setup_lockfile and the
\* loop have several locations; every other call has one.
Site(l) ==
    IF l \in SetupPcs THEN "setup_lockfile"
    ELSE IF l \in LoopPcs THEN "loop"
    ELSE l

\* ------------------------------------------------------------- doexit
\* main.py:109-112: LOCKFILE.unlink(missing_ok=True); exit(code).
doexit(p) ==
    /\ lockfile' = NoLock
    /\ pc' = [pc EXCEPT ![p] = "gone"]
    /\ exit_how' = "doexit"
    /\ exit_at' = Site(pc[p])
    /\ Forget(p)
    /\ UNCHANGED Env

\* An exception nobody catches (how = "traceback", "interrupt") or the
\* exit() of main.py:95 (how = "config_error"): the interpreter ends the process
\* and the lock file is left as it is.  A KeyboardInterrupt comes from a
\* signal, not from a statement of the call it arrives in: exit_at = "none".
Uncaught(p, how) ==
    /\ pc' = [pc EXCEPT ![p] = "gone"]
    /\ exit_how' = how
    /\ exit_at' = IF how = "interrupt" THEN "none" ELSE Site(pc[p])
    /\ Forget(p)
    /\ UNCHANGED <<lockfile, Env>>

\* The exit status the parent of the process sees.  doexit is always called
\* without an argument, so exit(code) gets its default code=1 (main.py:109,
\* 112); exit() at main.py:95 passes None, status 0; the interpreter ends with
\* 1 after a traceback; SIGINT and SIGKILL end it with 128 + the signal.
exit_status(how) ==
    CASE how = "doexit" -> 1
      [] how = "config_error" -> 0
      [] how = "traceback" -> 1
      [] how = "interrupt" -> 130
      [] how = "killed" -> 137
      [] OTHER -> -1

\* ------------------------------------------------------------- is_lockfile_stale
\* main.py:123: the boot time (seconds since 1970) against the age of the
\* lock, as the source has it.  A lock the program wrote has lstart >= Epoch
\* and an age far below the boot time, so this is false for all of them.
rebooted(lstart) == boot_time < (now - lstart)

\* is_lockfile_stale with the except branch of line 131 returning False.
is_lockfile_stale_except_false(lk, atCtor, atRun, atCwd) ==
    IF rebooted(lk.start) THEN TRUE
    ELSE IF atCtor = "absent" THEN FALSE
    ELSE IF atRun = atCtor
         THEN IF atCwd = "absent" THEN FALSE
              ELSE atCwd # "here"
    ELSE FALSE

\* main.py:122-133.  What psutil finds of the recorded pid at its three
\* looks: atCtor at psutil.Process(lpid), atRun at lproc.is_running(),
\* atCwd at lproc.cwd().
is_lockfile_stale(lk, atCtor, atRun, atCwd) ==
    IF rebooted(lk.start) THEN TRUE
    ELSE IF atCtor = "absent" THEN TRUE          \* psutil.NoSuchProcess, 131
    ELSE IF atRun = atCtor                       \* lproc.is_running()
         THEN IF atCwd = "absent" THEN TRUE      \* cwd(): NoSuchProcess, 131
              ELSE atCwd # "here"                \* not samefile(lproc.cwd())
    ELSE FALSE                                   \* line 133

\* main.py:117-120 and 127: read and parse the lock file, look up the pid.
IslRead(p) ==
    /\ pc[p] = "isl_read"
    /\ \/ /\ lockfile.ino = 0                    \* open: FileNotFoundError
          /\ Uncaught(p, "traceback")
       \/ /\ lockfile.ino # 0 /\ ~lockfile.written   \* llock[1]: IndexError
          /\ Uncaught(p, "traceback")
       \/ /\ lockfile.ino # 0 /\ lockfile.written
          /\ llock' = [llock EXCEPT ![p] = [pid |-> lockfile.pid, start |-> lockfile.start]]
          /\ lproc' = [lproc EXCEPT ![p] = ProcState(lockfile.pid)]
          /\ pc' = [pc EXCEPT ![p] = "isl_running"]
          /\ UNCHANGED <<lockfile, fd, start_time, exit_how, exit_at, Env>>

\* main.py:123-128: rebooted, the result of psutil.Process and
\* lproc.is_running().  When these decide the result, setup_lockfile branches
\* on it (139); otherwise lproc.cwd() is next.
IslRunning(p) ==
    /\ pc[p] = "isl_running"
    /\ LET atRun == ProcState(llock[p].pid)
       IN pc' = [pc EXCEPT ![p] =
                IF ~rebooted(llock[p].start) /\ lproc[p] # "absent" /\ atRun = lproc[p]
                THEN "isl_cwd"
                ELSE IF is_lockfile_stale(llock[p], lproc[p], atRun, atRun)
                     THEN "sl_unlink" ELSE "sl_conflict"]
    /\ UNCHANGED <<lockfile, Locals, exit_how, exit_at, Env>>

\* main.py:130-132: lproc.cwd() of a process is_running() found running,
\* and the branch of setup_lockfile on the result (139).
IslCwd(p) ==
    /\ pc[p] = "isl_cwd"
    /\ pc' = [pc EXCEPT ![p] =
                IF is_lockfile_stale(llock[p], lproc[p], lproc[p],
                                     ProcState(llock[p].pid))
                THEN "sl_unlink" ELSE "sl_conflict"]
    /\ UNCHANGED <<lockfile, Locals, exit_how, exit_at, Env>>

\* ------------------------------------------------------------- setup_lockfile
\* main.py:138.
SlExists(p) ==
    /\ pc[p] = "sl_exists"
    /\ pc' = [pc EXCEPT ![p] = IF lockfile.ino # 0 THEN "isl_read" ELSE "sl_open"]
    /\ UNCHANGED <<lockfile, Locals, exit_how, exit_at, Env>>

\* main.py:140: LOCKFILE.unlink() (no missing_ok).
SlUnlink(p) ==
    /\ pc[p] = "sl_unlink"
    /\ \/ /\ lockfile.ino = 0                    \* FileNotFoundError
          /\ Uncaught(p, "traceback")
       \/ /\ lockfile.ino # 0
          /\ lockfile' = NoLock
          /\ pc' = [pc EXCEPT ![p] = "sl_open"]
          /\ UNCHANGED <<Locals, exit_how, exit_at, Env>>

\* main.py:145-146: the conflict branch reads the file again for the log.
SlConflict(p) ==
    /\ pc[p] = "sl_conflict"
    /\ \/ /\ lockfile.ino = 0                    \* FileNotFoundError
          /\ Uncaught(p, "traceback")
       \/ /\ lockfile.ino # 0 /\ ~lockfile.written   \* values[1]: IndexError
          /\ Uncaught(p, "traceback")
       \/ /\ lockfile.ino # 0 /\ lockfile.written
          /\ pc' = [pc EXCEPT ![p] = "sl_doexit"]
          /\ UNCHANGED <<lockfile, Locals, exit_how, exit_at, Env>>

\* main.py:150.
SlDoexit(p) ==
    /\ pc[p] = "sl_doexit"
    /\ doexit(p)

\* main.py:151-153: pid, start_time, open(LOCKFILE, "wt") creates the file
\* or truncates the one that is there.
SlOpen(p) ==
    /\ pc[p] = "sl_open"
    /\ lockfile' = [ino |-> IF lockfile.ino = 0 THEN p ELSE lockfile.ino,
                    written |-> FALSE, pid |-> 0, start |-> 0]
    /\ fd' = [fd EXCEPT ![p] = lockfile'.ino]
    /\ start_time' = [start_time EXCEPT ![p] = now]
    /\ pc' = [pc EXCEPT ![p] = "sl_write"]
    /\ UNCHANGED <<llock, lproc, exit_how, exit_at, Env>>

\* main.py:154: f.write and the close of the with block.  The write goes to
\* the inode that was opened; when the path was unlinked (or unlinked and
\* created again) since, it names nothing or another inode and is unchanged.
SlWrite(p) ==
    /\ pc[p] = "sl_write"
    /\ lockfile' = IF lockfile.ino # 0 /\ lockfile.ino = fd[p]
                   THEN [ino |-> lockfile.ino, written |-> TRUE,
                         pid |-> p, start |-> start_time[p]]
                   ELSE lockfile
    /\ pc' = [pc EXCEPT ![p] = "check_user"]
    /\ Forget(p)
    /\ UNCHANGED <<exit_how, exit_at, Env>>

setup_lockfile(p) ==
    \/ SlExists(p)
    \/ IslRead(p)
    \/ IslRunning(p)
    \/ IslCwd(p)
    \/ SlUnlink(p)
    \/ SlConflict(p)
    \/ SlDoexit(p)
    \/ SlOpen(p)
    \/ SlWrite(p)

\* ------------------------------------------------------------- main
\* main.py:88-95: Config() validates the settings before main runs; on a
\* validation error the module calls exit(), not doexit.
ConfigOk(p) ==
    /\ pc[p] = "config"
    /\ pc' = [pc EXCEPT ![p] = "sl_exists"]
    /\ UNCHANGED <<lockfile, Locals, exit_how, exit_at, Env>>

\* create_output_file run at import time, before Config(): the validation
\* error ends a process that has already written the header of out.csv.
ConfigError_after_create(p) ==
    /\ pc[p] = "config"
    /\ pc' = [pc EXCEPT ![p] = "gone"]
    /\ exit_how' = "config_error"
    /\ exit_at' = Site(pc[p])
    /\ Forget(p)
    /\ out_csv' = IF out_csv.header = -1
                  THEN [header |-> 2, rows |-> << >>] ELSE out_csv
    /\ UNCHANGED <<lockfile, now, boot_time, nextPid, bvars,
                   MAWINDOW, st_pc, final_df, pre_csv>>

ConfigError(p) ==
    /\ pc[p] = "config"
    /\ Uncaught(p, "config_error")

\* main.py:188-199.  200: go on; 404: doexit; any other error status or a
\* connection error: raise_for_status / requests raise, nobody catches.
check_user(p) ==
    /\ pc[p] = "check_user"
    /\ \/ /\ pc' = [pc EXCEPT ![p] = "setup_backup_dir"]
          /\ UNCHANGED <<lockfile, Locals, exit_how, exit_at, Env>>
       \/ doexit(p)
       \/ Uncaught(p, "traceback")

\* main.py:157-170.
setup_backup_dir(p) ==
    /\ pc[p] = "setup_backup_dir"
    /\ pc' = [pc EXCEPT ![p] = "create_output_file"]
    /\ UNCHANGED <<lockfile, Locals, exit_how, exit_at, Env>>

\* main.py:173-178.
create_output_file(p) ==
    /\ pc[p] = "create_output_file"
    /\ pc' = [pc EXCEPT ![p] = "backup_output_file"]
    /\ UNCHANGED <<lockfile, Locals, exit_how, exit_at, Env>>

\* main.py:181-185 as main calls it (303): no try around the call.
backup_output_file(p) ==
    /\ pc[p] = "backup_output_file"
    /\ pc' = [pc EXCEPT ![p] = "fetch_kudos"]
    /\ UNCHANGED <<lockfile, Locals, exit_how, exit_at, Env>>

\* gzip.GzipFile / OUTPUT_FILE.open raise OSError (disk full, permissions,
\* out.csv removed by another process).
backup_output_file_raises(p) ==
    /\ pc[p] = "backup_output_file"
    /\ Uncaught(p, "traceback")

\* fetch_kudos with no except around it: what requests raises ends main.
fetch_kudos_uncaught(p) ==
    /\ pc[p] = "fetch_kudos"
    /\ \/ /\ pc' = [pc EXCEPT ![p] = "log_kudos"]
          /\ UNCHANGED <<lockfile, Locals, exit_how, exit_at, Env>>
       \/ Uncaught(p, "traceback")

\* main.py:310 (202-208): the fetch succeeds, or requests raises and line 317
\* catches it.
fetch_kudos(p) ==
    /\ pc[p] = "fetch_kudos"
    /\ \/ pc' = [pc EXCEPT ![p] = "log_kudos"]
       \/ pc' = [pc EXCEPT ![p] = "sleep"]
    /\ UNCHANGED <<lockfile, Locals, exit_how, exit_at, Env>>

\* main.py:311-313: log_kudos, update_secondary_stats and plot_kudos run (an
\* exception of theirs is caught at 319).  Spec keeps the lock file and the
\* processes, not the contents of out.csv; SpecStats models these three
\* calls on the file.
tick_store(p) ==
    /\ pc[p] = "log_kudos"
    /\ pc' = [pc EXCEPT ![p] = "sleep"]
    /\ UNCHANGED <<lockfile, Locals, exit_how, exit_at, Env>>

\* main.py:321-322.
sleep(p) ==
    /\ pc[p] = "sleep"
    /\ pc' = [pc EXCEPT ![p] = "fetch_kudos"]
    /\ UNCHANGED <<lockfile, Locals, exit_how, exit_at, Env>>

\* KeyboardInterrupt.  main.py:314-316 and 323-325 catch it in the loop and
\* call doexit; anywhere else nothing catches it.
Cancel(p) ==
    \/ /\ pc[p] \in LoopPcs
       /\ doexit(p)
    \/ /\ pc[p] \in CollectorPcs \ LoopPcs
       /\ Uncaught(p, "interrupt")

\* SIGKILL, out of memory, power loss of one process: no code of it runs.
Kill(p) ==
    /\ pc[p] \in CollectorPcs
    /\ pc' = [pc EXCEPT ![p] = "gone"]
    /\ exit_how' = "killed"
    /\ exit_at' = "none"
    /\ Forget(p)
    /\ UNCHANGED <<lockfile, Env>>

\* ------------------------------------------------------------- the host
\* A collector is started in the working directory: python main.py.
Start(p) ==
    /\ p = nextPid
    /\ pc[p] = "none"
    /\ pc' = [pc EXCEPT ![p] = "config"]
    /\ nextPid' = nextPid + 1
    /\ UNCHANGED <<lockfile, Locals, now, boot_time, exit_how, exit_at, svars, bvars>>

\* An unrelated program starts in another directory and gets the next pid.
ForeignStart(p) ==
    /\ p = nextPid
    /\ pc[p] = "none"
    /\ pc' = [pc EXCEPT ![p] = "foreign"]
    /\ nextPid' = nextPid + 1
    /\ UNCHANGED <<lockfile, Locals, now, boot_time, exit_how, exit_at, svars, bvars>>

ForeignExit(p) ==
    /\ pc[p] = "foreign"
    /\ pc' = [pc EXCEPT ![p] = "gone"]
    /\ UNCHANGED <<lockfile, Locals, exit_how, exit_at, Env>>

Tick ==
    /\ now < Epoch + MaxTime
    /\ now' = now + 1
    /\ UNCHANGED <<pc, lockfile, Locals, boot_time, nextPid, exit_how, exit_at, svars, bvars>>

\* The host reboots (it has been up for some time): every process is gone,
\* pids start again at 1, the files stay.
Reboot ==
    /\ boot_time < now
    /\ boot_time' = now
    /\ nextPid' = 1
    /\ pc' = [p \in Pids |-> "none"]
    /\ fd' = [p \in Pids |-> 0]
    /\ llock' = [p \in Pids |-> NoRecord]
    /\ lproc' = [p \in Pids |-> "absent"]
    /\ start_time' = [p \in Pids |-> 0]
    /\ UNCHANGED <<lockfile, now, exit_how, exit_at, svars, bvars>>

main(p) ==
    \/ ConfigOk(p)
    \/ ConfigError(p)
    \/ setup_lockfile(p)
    \/ check_user(p)
    \/ setup_backup_dir(p)
    \/ create_output_file(p)
    \/ backup_output_file(p)
    \/ backup_output_file_raises(p)
    \/ fetch_kudos(p)
    \/ tick_store(p)
    \/ sleep(p)

Next ==
    \/ \E p \in Pids : main(p)
    \/ \E p \in Pids : Cancel(p)
    \/ \E p \in Pids : Kill(p)
    \/ \E p \in Pids : Start(p)
    \/ \E p \in Pids : ForeignStart(p)
    \/ \E p \in Pids : ForeignExit(p)
    \/ Tick
    \/ Reboot

Spec == Init /\ [][Next]_vars

\* ------------------------------------------------------------- out.csv
\* chunk_size of read_output_file_in_chunks (main.py:219) is 10000; the
\* model reads 2 rows per chunk so that a store of MaxRows rows spans chunks.
chunk_size == 2
\* The window of MAD1 (main.py:233).
MAD1_WINDOW == 15

\* A cell of a numeric column: NaN (def = FALSE) or the fraction num/den.
Absent == [def |-> FALSE, num |-> 0, den |-> 1]
Num(n) == [def |-> TRUE, num |-> n, den |-> 1]

Min(a, b) == IF a < b THEN a ELSE b
Max(a, b) == IF a > b THEN a ELSE b

\* Sum and count of the cells of col[lo..hi] that are not NaN.
RECURSIVE SumDef(_, _, _)
SumDef(col, lo, hi) ==
    IF lo > hi THEN 0
    ELSE (IF col[hi].def THEN col[hi].num ELSE 0) + SumDef(col, lo, hi - 1)

RECURSIVE CountDef(_, _, _)
CountDef(col, lo, hi) ==
    IF lo > hi THEN 0
    ELSE (IF col[hi].def THEN 1 ELSE 0) + CountDef(col, lo, hi - 1)

\* Series.rolling(window=w, min_periods=0).mean(): at i, the mean of the
\* cells that are not NaN among the last w of the series; NaN when none is.
rolling_mean(col, w) ==
    [i \in 1..Len(col) |->
        LET lo == Max(1, i - w + 1)
            n == CountDef(col, lo, i)
        IN IF n = 0 THEN Absent
           ELSE [def |-> TRUE, num |-> SumDef(col, lo, i), den |-> n]]

\* Series.diff(): NaN at the first row of the series.
diff(col) ==
    [i \in 1..Len(col) |->
        IF i = 1 THEN Absent ELSE Num(col[i].num - col[i - 1].num)]

\* The body of the for loop patching D1 instead of recomputing it: the new
\* difference is added to the D1 the file holds.
process_chunk_patching(chunk, w) ==
    LET Kudos == [i \in 1..Len(chunk) |-> Num(chunk[i].Kudos)]
        MA == rolling_mean(Kudos, w)
        D1 == [i \in 1..Len(chunk) |->
                 IF diff(Kudos)[i].def /\ chunk[i].D1.def
                 THEN Num(diff(Kudos)[i].num + chunk[i].D1.num)
                 ELSE diff(Kudos)[i]]
        MAD1 == rolling_mean(D1, MAD1_WINDOW)
    IN [i \in 1..Len(chunk) |->
          [Time |-> chunk[i].Time, Kudos |-> chunk[i].Kudos,
           MA |-> MA[i], D1 |-> D1[i], MAD1 |-> MAD1[i]]]

\* The body of the for loop, main.py:229-233, on one chunk.
process_chunk(chunk, w) ==
    LET Kudos == [i \in 1..Len(chunk) |-> Num(chunk[i].Kudos)]
        MA == rolling_mean(Kudos, w)
        D1 == diff(Kudos)
        MAD1 == rolling_mean(D1, MAD1_WINDOW)
    IN [i \in 1..Len(chunk) |->
          [Time |-> chunk[i].Time, Kudos |-> chunk[i].Kudos,
           MA |-> MA[i], D1 |-> D1[i], MAD1 |-> MAD1[i]]]

\* main.py:219-221: the rows of the file, chunk_size at a time.
read_output_file_in_chunks(rows) ==
    [j \in 1..((Len(rows) + chunk_size - 1) \div chunk_size) |->
        SubSeq(rows, (j - 1) * chunk_size + 1, Min(j * chunk_size, Len(rows)))]

\* pd.concat(results, ignore_index=True), main.py:235.
RECURSIVE concat(_)
concat(results) ==
    IF results = << >> THEN << >>
    ELSE Head(results) \o concat(Tail(results))

\* main.py:226-235: final_df for the rows read from the file.
compute_final_df(rows, w) ==
    LET df_chunks == read_output_file_in_chunks(rows)
    IN concat([j \in 1..Len(df_chunks) |-> process_chunk(df_chunks[j], w)])

\* main.py:211-216: one row "<time>,<kudos>" is appended; the three derived
\* columns are not in the text of the row.
log_kudos(kudos) ==
    /\ st_pc = "log_kudos"
    /\ Len(out_csv.rows) < MaxRows
    /\ out_csv' = [out_csv EXCEPT !.rows =
                     Append(@, [Time |-> now, Kudos |-> kudos,
                                MA |-> Absent, D1 |-> Absent, MAD1 |-> Absent])]
    /\ st_pc' = "update_secondary_stats"
    /\ UNCHANGED <<lvars, bvars, now, MAWINDOW, final_df, pre_csv>>

\* main.py:226-235: read the file and compute final_df in memory.
update_secondary_stats ==
    /\ st_pc = "update_secondary_stats"
    /\ pre_csv' = out_csv
    /\ final_df' = compute_final_df(out_csv.rows, MAWINDOW)
    /\ st_pc' = "to_csv"
    /\ UNCHANGED <<lvars, bvars, now, MAWINDOW, out_csv>>

\* main.py:236: final_df.to_csv(OUTPUT_FILE) opens out.csv for writing,
\* which truncates it.
to_csv_open ==
    /\ st_pc = "to_csv"
    /\ out_csv' = [header |-> 0, rows |-> << >>]
    /\ st_pc' = "to_csv_rows"
    /\ UNCHANGED <<lvars, bvars, now, MAWINDOW, final_df, pre_csv>>

\* main.py:236: the header, then the rows reach the file in order; the file
\* is closed after the last.
to_csv_write ==
    /\ st_pc = "to_csv_rows"
    /\ IF out_csv.header = 0
       THEN /\ out_csv' = [out_csv EXCEPT !.header = 5]
            /\ UNCHANGED st_pc
       ELSE /\ out_csv' = [out_csv EXCEPT !.rows =
                             Append(@, final_df[Len(out_csv.rows) + 1])]
            /\ st_pc' = IF Len(out_csv.rows) + 1 = Len(final_df)
                        THEN "plot_kudos" ELSE "to_csv_rows"
    /\ UNCHANGED <<lvars, bvars, now, MAWINDOW, final_df, pre_csv>>

\* main.py:313 and 321-322: plot_kudos reads the store, the loop sleeps.
plot_kudos ==
    /\ st_pc = "plot_kudos"
    /\ st_pc' = "log_kudos"
    /\ final_df' = << >>
    /\ now' = now + 1
    /\ UNCHANGED <<lvars, bvars, MAWINDOW, out_csv, pre_csv>>

\* The process is ended from outside (SIGKILL, power loss) in the middle of
\* a tick; the file stays as it is.
Crash ==
    /\ st_pc \in {"update_secondary_stats", "to_csv", "to_csv_rows", "plot_kudos"}
    /\ st_pc' = "crashed"
    /\ UNCHANGED <<lvars, bvars, now, MAWINDOW, out_csv, final_df, pre_csv>>

InitStats ==
    /\ InitLock
    /\ now = Epoch
    /\ MAWINDOW \in 1..MaxWindow
    /\ st_pc = "log_kudos"
    /\ out_csv = EmptyStore
    /\ final_df = << >>
    /\ pre_csv = EmptyStore
    /\ InitBackupDir

NextStats ==
    \/ \E kudos \in 0..MaxKudos : log_kudos(kudos)
    \/ update_secondary_stats
    \/ to_csv_open
    \/ to_csv_write
    \/ plot_kudos
    \/ Crash

SpecStats == InitStats /\ [][NextStats]_vars

\* ------------------------------------------------------------- recompute
\* update_secondary_stats as a function of the file: SpecRecompute applies it
\* to every store a tick can hand to it, and then again to its own result.
\* The row log_kudos writes (main.py:215): two fields, no derived column.
written_row(timestamp, kudos) ==
    [Time |-> timestamp, Kudos |-> kudos,
     MA |-> Absent, D1 |-> Absent, MAD1 |-> Absent]

\* The stores update_secondary_stats is called on (main.py:311-312): the
\* rows earlier calls rewrote, then the rows appended since (one, or more when
\* earlier calls raised before writing), sampled one second apart.
InitRecompute ==
    /\ InitLock
    /\ now = Epoch
    /\ InitBackupDir
    /\ MAWINDOW \in 1..MaxWindow
    /\ st_pc = "update_secondary_stats"
    /\ final_df = << >>
    /\ pre_csv = EmptyStore
    /\ \E n \in 1..MaxRows : \E kudos \in [1..n -> 0..MaxKudos] :
          \E m \in 0..(n - 1) :
             out_csv =
               [header |-> IF m = 0 THEN 2 ELSE 5,
                rows |-> compute_final_df(
                            [i \in 1..m |-> written_row(Epoch + i, kudos[i])],
                            MAWINDOW)
                         \o [i \in 1..(n - m) |->
                               written_row(Epoch + m + i, kudos[m + i])]]

\* update_secondary_stats is called again, with no log_kudos in between.
update_secondary_stats_again ==
    /\ st_pc = "plot_kudos"
    /\ st_pc' = "update_secondary_stats"
    /\ final_df' = << >>
    /\ UNCHANGED <<lvars, bvars, now, MAWINDOW, out_csv, pre_csv>>

NextRecompute ==
    \/ update_secondary_stats
    \/ to_csv_open
    \/ to_csv_write
    \/ update_secondary_stats_again

SpecRecompute == InitRecompute /\ [][NextRecompute]_vars

\* ------------------------------------------------------------- bak.d
\* A file of bak.d is [name |-> n, ctime |-> c]: out-<n>.csv.gz with
\* st_ctime c.
\* BACKUP_DIR.iterdir() yields the files in an order the file system chooses.
iterdir(files) ==
    {order \in [1..Cardinality(files) -> files] :
        \A i, j \in 1..Cardinality(files) : i # j => order[i] # order[j]}

\* sorted with reverse=True left out: smallest st_ctime first.
RECURSIVE sorted_backups_ascending(_)
sorted_backups_ascending(order) ==
    IF order = << >> THEN << >>
    ELSE LET x == Head(order)
             rest == sorted_backups_ascending(Tail(order))
             k == Cardinality({i \in 1..Len(rest) : rest[i].ctime < x.ctime})
         IN SubSeq(rest, 1, k) \o <<x>> \o SubSeq(rest, k + 1, Len(rest))

\* sorted(..., key=lambda x: x.stat().st_ctime, reverse=True), main.py:162-164:
\* largest st_ctime first; the sort is stable, files with equal st_ctime keep
\* the order iterdir gave them.
RECURSIVE sorted_backups(_)
sorted_backups(order) ==
    IF order = << >> THEN << >>
    ELSE LET x == Head(order)
             rest == sorted_backups(Tail(order))
             k == Cardinality({i \in 1..Len(rest) : rest[i].ctime > x.ctime})
         IN SubSeq(rest, 1, k) \o <<x>> \o SubSeq(rest, k + 1, Len(rest))

\* main.py:167-170: the files that are unlinked, backups[NUMBACKUPS:] when
\* there are more than NUMBACKUPS.
old_backups(backups, N) ==
    IF Len(backups) > N
    THEN {backups[i] : i \in (N + 1)..Len(backups)}
    ELSE {}

\* main.py:157-170 on the directory: mkdir when bak.d is missing, then the
\* old backups are unlinked.
SetupBackupDir(p) ==
    /\ pc[p] = "setup_backup_dir"
    /\ \E order \in iterdir(bak_d.files) :
          bak_d' = [exists |-> TRUE,
                    files |-> bak_d.files \
                              old_backups(sorted_backups(order), NUMBACKUPS)]
    /\ pre_bak_d' = bak_d
    /\ pc' = [pc EXCEPT ![p] = "create_output_file"]
    /\ UNCHANGED <<lockfile, Locals, exit_how, exit_at, now, boot_time, nextPid, svars,
                   NUMBACKUPS, env_NUMBACKUPS>>

\* main.py:173-178 on out.csv: the header "Time,Kudos" when there is no file.
CreateOutputFile(p) ==
    /\ pc[p] = "create_output_file"
    /\ out_csv' = IF out_csv = NoStore THEN EmptyStore ELSE out_csv
    /\ pc' = [pc EXCEPT ![p] = "backup_output_file"]
    /\ UNCHANGED <<lockfile, Locals, exit_how, exit_at, now, boot_time, nextPid, bvars,
                   MAWINDOW, st_pc, final_df, pre_csv>>

\* main.py:181-185 on bak.d: out-<int(time.time())>.csv.gz is created, or
\* written over when a file of that name is there.
BackupOutputFile(p) ==
    /\ pc[p] = "backup_output_file"
    /\ bak_d.exists /\ out_csv # NoStore
    /\ bak_d' = [bak_d EXCEPT !.files =
                    {f \in @ : f.name # now} \cup {[name |-> now, ctime |-> now]}]
    /\ pc' = [pc EXCEPT ![p] = "fetch_kudos"]
    /\ UNCHANGED <<lockfile, Locals, exit_how, exit_at, now, boot_time, nextPid, svars,
                   NUMBACKUPS, env_NUMBACKUPS, pre_bak_d>>

\* The start-up of main from setup_backup_dir on (main.py:301-303), for every
\* NUMBACKUPS the environment can give and every content of bak.d: process 1
\* has returned from setup_lockfile and check_user.
InitBackup ==
    /\ pc = [p \in Pids |-> IF p = 1 THEN "setup_backup_dir" ELSE "none"]
    /\ lockfile = [ino |-> 1, written |-> TRUE, pid |-> 1, start |-> Epoch]
    /\ fd = [p \in Pids |-> 0]
    /\ llock = [p \in Pids |-> NoRecord]
    /\ lproc = [p \in Pids |-> "absent"]
    /\ start_time = [p \in Pids |-> 0]
    /\ boot_time = Epoch
    /\ nextPid = 2
    /\ exit_how = "none"
    /\ exit_at = "none"
    /\ now = Epoch
    /\ MAWINDOW = 2
    /\ st_pc = "log_kudos"
    /\ out_csv \in {NoStore, EmptyStore}
    /\ final_df = << >>
    /\ pre_csv = EmptyStore
    /\ env_NUMBACKUPS \in -1..MaxBackups
    /\ NUMBACKUPS = check_backups_num(env_NUMBACKUPS)
    /\ \E c \in [1..MaxBackups -> 0..MaxCtime] :
          bak_d \in {NoBackupDir,
                     [exists |-> TRUE,
                      files |-> {[name |-> n, ctime |-> c[n]] :
                                   n \in {m \in 1..MaxBackups : c[m] # 0}}]}
    /\ pre_bak_d = NoBackupDir

NextBackup ==
    \/ SetupBackupDir(1)
    \/ CreateOutputFile(1)
    \/ BackupOutputFile(1)

SpecBackup == InitBackup /\ [][NextBackup]_vars

\* ------------------------------------------------------------- main, with its files
\* main.py:311-313 on out.csv, with the except of line 319: log_kudos appends
\* the row, update_secondary_stats reads the file and rewrites it, plot_kudos
\* reads it.  Whatever one of them raises is caught and the loop goes on to
\* its sleep.
TickStore(p) ==
    /\ pc[p] = "log_kudos"
    /\ \/ UNCHANGED out_csv                   \* log_kudos raises OSError
       \/ \E kudos \in 0..MaxKudos :
            /\ Len(out_csv.rows) < MaxRows
            /\ LET appended == [out_csv EXCEPT !.rows =
                                  Append(@, [Time |-> now, Kudos |-> kudos,
                                             MA |-> Absent, D1 |-> Absent,
                                             MAD1 |-> Absent])]
               IN \* read_csv raises, or the file has no header line and
                  \* chunk["Kudos"] raises KeyError: the row stays appended
                  \/ out_csv' = appended
                  \* final_df.to_csv has opened (truncated) the file and
                  \* raises OSError
                  \/ /\ out_csv.header > 0
                     /\ out_csv' = [header |-> 0, rows |-> << >>]
                  \* all three calls return
                  \/ /\ out_csv.header > 0
                     /\ out_csv' = [header |-> 5,
                                    rows |-> compute_final_df(appended.rows,
                                                              MAWINDOW)]
    /\ pc' = [pc EXCEPT ![p] = "sleep"]
    /\ UNCHANGED <<lockfile, Locals, exit_how, exit_at, now, boot_time, nextPid, bvars,
                   MAWINDOW, st_pc, final_df, pre_csv>>

\* main (292-325) with what its start-up and its ticks do to bak.d and
\* out.csv.
Main(p) ==
    \/ ConfigOk(p)
    \/ ConfigError(p)
    \/ setup_lockfile(p)
    \/ check_user(p)
    \/ SetupBackupDir(p)
    \/ CreateOutputFile(p)
    \/ BackupOutputFile(p)
    \/ backup_output_file_raises(p)
    \/ fetch_kudos(p)
    \/ TickStore(p)
    \/ sleep(p)

\* SpecRun follows one run of main, process 2, from its start to its end in
\* every directory it can be started in.  Process 1 is a collector that was
\* started there before: never (a fresh directory), ended (its lock file
\* released, left behind written, or left behind empty), or still running,
\* asleep between two ticks (main.py:322) for the whole start-up of process 2.
InitRun ==
    /\ fd = [p \in Pids |-> 0]
    /\ llock = [p \in Pids |-> NoRecord]
    /\ lproc = [p \in Pids |-> "absent"]
    /\ start_time = [p \in Pids |-> 0]
    /\ boot_time = Epoch - 1
    /\ now = Epoch
    /\ nextPid = 2
    /\ exit_how = "none"
    /\ exit_at = "none"
    /\ st_pc = "log_kudos"
    /\ final_df = << >>
    /\ pre_csv = EmptyStore
    /\ MAWINDOW = 2
    /\ env_NUMBACKUPS = DEFAULT_NUMBACKUPS
    /\ NUMBACKUPS = check_backups_num(env_NUMBACKUPS)
    /\ pre_bak_d = NoBackupDir
    /\ \E first \in {"none", "gone", "sleep"} :
         /\ pc = [p \in Pids |-> IF p = 1 THEN first ELSE "none"]
         /\ lockfile \in
              CASE first = "none" -> {NoLock}
                [] first = "gone" ->
                     {NoLock,
                      [ino |-> 1, written |-> FALSE, pid |-> 0, start |-> 0],
                      [ino |-> 1, written |-> TRUE, pid |-> 1,
                       start |-> Epoch - 1]}
                [] first = "sleep" ->
                     {[ino |-> 1, written |-> TRUE, pid |-> 1,
                       start |-> Epoch - 1]}
         /\ out_csv = IF first = "none" THEN NoStore ELSE EmptyStore
         /\ bak_d = IF first = "none" THEN NoBackupDir
                    ELSE [exists |-> TRUE,
                          files |-> {[name |-> Epoch - 1, ctime |-> Epoch - 1]}]

NextRun ==
    \/ Start(2)
    \/ Main(2)
    \/ Cancel(2)
    \/ Kill(2)
    \/ Tick

SpecRun == InitRun /\ [][NextRun]_vars

\* ------------------------------------------------------------- claims
\* The step is one of process p's own (not the host's reboot, not another
\* process's step).
StepOf(p) == pc'[p] # pc[p] /\ pc'[p] # "none"

\* Process p ends in this step, in one of the ways hows.
Ends(p, hows) ==
    pc[p] \in CollectorPcs /\ pc'[p] = "gone" /\ exit_how' \in hows

\* C1: at most one process at a time is an owner (has returned from
\* setup_lockfile and has not exited).
C1_AtMostOneOwner ==
    Cardinality({p \in Pids : pc[p] \in OwnerPcs}) <= 1

\* C2: a process that judged the lock not stale terminates and leaves the
\* lock file there, with the pid and acquisition time it had.
C2_ConflictLeavesLock ==
    [][\A p \in Pids :
         ( /\ pc[p] \in {"sl_conflict", "sl_doexit"}
           /\ Ends(p, OwnExits)
           /\ lockfile.written
           /\ lockfile.pid = llock[p].pid /\ lockfile.start = llock[p].start
           /\ ProcState(lockfile.pid) = "here" )
         => lockfile' = lockfile]_vars

\* C3: no process deletes or overwrites a lock file whose recorded pid is
\* that of a different collector process that is still running.
C3_NoForeignLockRemoval ==
    [][\A p, q \in Pids :
         ( /\ p # q
           /\ pc[p] \in CollectorPcs /\ StepOf(p)
           /\ pc[q] \in CollectorPcs /\ pc'[q] = pc[q]
           /\ lockfile.written /\ lockfile.pid = q )
         => lockfile' = lockfile]_vars

\* C4: a process that has written its own lock file and terminates on its
\* own code path has deleted the lock file when it exits.
C4_LockRemovedOnExit ==
    [][\A p \in Pids :
         ( /\ pc[p] \in OwnerPcs
           /\ Ends(p, OwnExits)
           /\ lockfile.written /\ lockfile.pid = p )
         => lockfile'.ino = 0]_vars

\* C5: is_lockfile_stale returns true for every lock whose acquisition
\* time is earlier than the host's last boot time, whatever the state of the
\* recorded pid.
C5_RebootedLockIsStale ==
    [][\A p \in Pids :
         ( /\ pc[p] \in {"isl_running", "isl_cwd"}
           /\ pc'[p] \in {"sl_unlink", "sl_conflict"}
           /\ llock[p].start < boot_time )
         => pc'[p] = "sl_unlink"]_vars

\* C6: is_lockfile_stale returns true for every lock whose recorded pid is
\* no running process (a process in the conflict branch found the pid
\* running), and the process that judged the lock stale removes it, opens
\* its own and returns from setup_lockfile as the owner, unless it is ended
\* before or another process removed the lock first.
C6_DeadPidLockIsStale ==
    /\ [](\A p \in Pids :
            pc[p] \in {"sl_conflict", "sl_doexit"} => lproc[p] # "absent")
    /\ [][\A p \in Pids :
            ( /\ StepOf(p) /\ pc'[p] \in CollectorPcs
              /\ pc[p] \in {"sl_unlink", "sl_open", "sl_write"} )
            => /\ pc[p] = "sl_unlink" => (lockfile' = NoLock /\ pc'[p] = "sl_open")
               /\ pc[p] = "sl_open" => (lockfile'.ino # 0 /\ pc'[p] = "sl_write")
               /\ pc[p] = "sl_write" => pc'[p] \in OwnerPcs]_vars

\* C6 witness: a process read a lock whose pid was no running process, judged
\* it stale and removed it.
C6_Witness ==
    \E p \in Pids :
        /\ pc[p] = "sl_open"
        /\ llock[p].pid # 0 /\ lproc[p] = "absent"
        /\ lockfile = NoLock

\* C7: when the owner died without releasing the lock (at whatever point
\* after it began acquisition) and no other collector is running, the next
\* process to start does not exit with a conflict and does not abort.
C7_OrphanRecovered ==
    [][\A p \in Pids :
         ( /\ pc[p] \in SetupPcs /\ fd[p] = 0
           /\ \A q \in Pids \ {p} : pc[q] \notin CollectorPcs
           /\ lockfile.ino # 0 )
         => ~Ends(p, {"doexit", "traceback"})]_vars

\* C8: after update_secondary_stats, for every number of rows and every
\* window W >= 1, MA at row i is the mean of the Kudos of the min(i+1, W)
\* most recent rows ending at i, D1 is absent at row 0 and Kudos[i] -
\* Kudos[i-1] at every later row (rows counted from 0 in the claim, from 1
\* here).
C8_DerivedColumns ==
    st_pc = "plot_kudos" =>
        \A i \in 1..Len(out_csv.rows) :
            LET rows == out_csv.rows
                K == [j \in 1..Len(rows) |-> Num(rows[j].Kudos)]
                n == Min(i, MAWINDOW)
            IN /\ rows[i].MA.def
               /\ rows[i].MA.num * n = SumDef(K, i - n + 1, i) * rows[i].MA.den
               /\ i = 1 => ~rows[i].D1.def
               /\ i > 1 => /\ rows[i].D1.def
                           /\ rows[i].D1.num = rows[i].Kudos - rows[i - 1].Kudos
                           /\ rows[i].D1.den = 1

\* C9: while update_secondary_stats rewrites the store, and in the state a
\* crash in the middle of it leaves, out.csv holds either its complete
\* contents from before the rewrite or its complete contents after it.
C9_AtomicRewrite ==
    (st_pc \in {"to_csv", "to_csv_rows"} \/ (st_pc = "crashed" /\ final_df # << >>))
        => \/ out_csv = pre_csv
           \/ out_csv = [header |-> 5, rows |-> final_df]

\* C10: when backup_output_file raises, the process is not terminated: it
\* goes on into the running loop.
C10_BackupFailureNonFatal ==
    [][\A p \in Pids :
         ( /\ pc[p] = "backup_output_file"
           /\ StepOf(p) /\ ~Ends(p, {"killed", "interrupt"}) )
         => pc'[p] = "fetch_kudos"]_vars

\* C11: for every retention count N >= 0 and every set of files in bak.d,
\* setup_backup_dir leaves exactly min(N, number of files) of them, and no
\* file it removed has a later creation time than a file it kept.
C11_PruneKeepsMostRecent ==
    [][\A p \in Pids :
         (pc[p] = "setup_backup_dir" /\ pc'[p] = "create_output_file")
         => /\ NUMBACKUPS >= 0
            /\ bak_d'.files \subseteq bak_d.files
            /\ Cardinality(bak_d'.files)
                  = Min(NUMBACKUPS, Cardinality(bak_d.files))
            /\ \A k \in bak_d'.files, d \in bak_d.files \ bak_d'.files :
                  k.ctime >= d.ctime]_vars

\* C11 witness: setup_backup_dir found more files than the retention count,
\* of different creation times, and removed some and kept some.
C11_Witness ==
    \E p \in Pids :
        /\ pc[p] = "create_output_file"
        /\ Cardinality(pre_bak_d.files) > NUMBACKUPS
        /\ bak_d.files # {} /\ bak_d.files # pre_bak_d.files
        /\ \E k \in bak_d.files, d \in pre_bak_d.files \ bak_d.files :
              k.ctime > d.ctime

\* C12: every configured retention count N <= 0, N = 0 included, is replaced
\* by the default (10) before setup_backup_dir prunes, so that pruning under
\* a non-positive N never removes every file of bak.d.
C12_NonPositiveRetentionCoerced ==
    [][\A p \in Pids :
         ( /\ pc[p] = "setup_backup_dir" /\ pc'[p] = "create_output_file"
           /\ env_NUMBACKUPS <= 0 )
         => /\ NUMBACKUPS = DEFAULT_NUMBACKUPS
            /\ bak_d.files # {} => bak_d'.files # {}]_vars

\* C13: in the running loop a tick whose fetch fails appends no sample, and a
\* step of the loop that is not a cancellation (whatever fetch_kudos,
\* log_kudos, update_secondary_stats or plot_kudos raised) leaves the process
\* in the loop and its lock file as it is: after the work it sleeps, after
\* the sleep it fetches again.
C13_TickErrorsStayInLoop ==
    [][\A p \in Pids :
         ( /\ pc[p] \in LoopPcs /\ StepOf(p)
           /\ ~Ends(p, {"doexit", "killed"}) )
         => /\ pc'[p] \in LoopPcs
            /\ lockfile' = lockfile
            /\ (pc[p] = "fetch_kudos" /\ pc'[p] = "sleep") => out_csv' = out_csv
            /\ pc[p] = "log_kudos" => pc'[p] = "sleep"
            /\ pc[p] = "sleep" => pc'[p] = "fetch_kudos"]_vars

\* C13 witness: process 2 sleeps after a tick that appended nothing (the
\* fetch failed, or log_kudos raised) and its lock file is in place.
C13_Witness ==
    /\ pc[2] = "sleep"
    /\ out_csv = EmptyStore
    /\ lockfile.written /\ lockfile.pid = 2

\* C14: a cancellation signal (KeyboardInterrupt) received in the work phase
\* or in the sleep phase of the running loop makes the process delete its
\* lock file and exit with the success status, 0.
C14_CancelExitsWithSuccess ==
    [][\A p \in Pids :
         (pc[p] \in LoopPcs /\ Ends(p, OwnExits))
         => /\ lockfile'.ino = 0
            /\ exit_status(exit_how') = 0]_vars

\* The four terminations whose exit statuses spec section 6 tells apart.
termination(how, at) ==
    CASE how = "doexit" /\ at = "loop" -> "cancellation"
      [] how = "config_error" -> "configuration error"
      [] how = "doexit" /\ at = "setup_lockfile" -> "lock conflict"
      [] how = "traceback" /\ at \in {"setup_lockfile", "backup_output_file"}
           -> "I/O failure at startup"
      [] OTHER -> "other"

\* C15: the exit statuses of a clean shutdown via cancellation, a fatal
\* configuration error, a lock conflict with another live instance and a
\* lock/storage I/O failure at startup are pairwise distinct: when a
\* collector ends in one of these four ways and the collector that ended
\* before it ended in another of them, their exit statuses differ.
C15_ExitStatusesDistinct ==
    [][\A p \in Pids :
         ( /\ pc[p] \in CollectorPcs /\ pc'[p] = "gone"
           /\ termination(exit_how, exit_at) # "other"
           /\ termination(exit_how', exit_at') # "other"
           /\ termination(exit_how', exit_at') # termination(exit_how, exit_at) )
         => exit_status(exit_how') # exit_status(exit_how)]_vars

\* A store as update_secondary_stats leaves it: five columns, every row
\* with its derived columns computed, no row appended since.
Rewritten(store) ==
    /\ store.header = 5
    /\ \A i \in 1..Len(store.rows) : store.rows[i].MA.def

\* C16: running update_secondary_stats twice in a row with no append in
\* between leaves the store identical to its contents after the first run:
\* the same rows, the same values in all five columns.
C16_RecomputeIdempotent ==
    (st_pc = "plot_kudos" /\ Rewritten(pre_csv)) => out_csv = pre_csv

\* C16 witness: the second run has finished on a store of several chunks
\* that the first run had rewritten.
C16_Witness ==
    /\ st_pc = "plot_kudos"
    /\ Rewritten(pre_csv)
    /\ Len(pre_csv.rows) > chunk_size
    /\ out_csv.header = 5 /\ Len(out_csv.rows) = Len(pre_csv.rows)

\* The (Time, Kudos) pairs of the rows of a store, in order.
Samples(store) ==
    [i \in 1..Len(store.rows) |-> <<store.rows[i].Time, store.rows[i].Kudos>>]

\* C17: for a single collector process the (Time, Kudos) rows of the store
\* are the fetched samples in fetch order: a step of the process leaves them
\* as they are, or (log_kudos, in a tick whose fetch succeeded) adds the
\* sample of this tick after them; no step changes, drops or reorders the
\* Time or Kudos of a row appended before.
C17_RowsAreTheSamples ==
    [][\A p \in Pids :
         StepOf(p)
         => \/ Samples(out_csv') = Samples(out_csv)
            \/ /\ pc[p] = "log_kudos"
               /\ Len(out_csv'.rows) = Len(out_csv.rows) + 1
               /\ SubSeq(Samples(out_csv'), 1, Len(out_csv.rows))
                    = Samples(out_csv)
               /\ out_csv'.rows[Len(out_csv'.rows)].Time = now]_vars

\* C18: at every point while a process is in its running loop (after the
\* pruning and the initial snapshot of its start-up), bak.d holds at most
\* NUMBACKUPS files.
C18_BackupsWithinRetention ==
    \A p \in Pids :
        pc[p] \in LoopPcs => Cardinality(bak_d.files) <= NUMBACKUPS

\* C19: a process changes out.csv or bak.d (creates, appends, rewrites,
\* deletes) only after the f.write of its own lock record; the snapshot of
\* its start is in bak.d before its first append; a process that ends with a
\* configuration error or a lock conflict has changed neither out.csv nor
\* bak.d.  As steps of the process p:
\*  - a step that changes out.csv or bak.d is taken by an owner;
\*  - p becomes an owner by the step from "sl_write", which leaves its record
\*    in the lock file, and stays one until it ends;
\*  - p enters its loop by the step of backup_output_file that leaves the
\*    snapshot named after the current time, and rows change in the loop only;
\*  - exit() at main.py:95 is reached from "config" and the doexit of the
\*    conflict from setup_lockfile, neither from an owner.
C19_DataOnlyUnderLock ==
    [][\A p \in Pids :
        /\ (StepOf(p) /\ (out_csv' # out_csv \/ bak_d' # bak_d))
               => pc[p] \in OwnerPcs
        /\ (pc[p] \notin OwnerPcs /\ pc'[p] \in OwnerPcs)
               => /\ pc[p] = "sl_write"
                  /\ lockfile'.written /\ lockfile'.pid = p
        /\ (pc[p] \in OwnerPcs /\ StepOf(p))
               => pc'[p] \in OwnerPcs \cup {"gone"}
        /\ (pc[p] \notin LoopPcs /\ pc'[p] \in LoopPcs)
               => /\ pc[p] = "backup_output_file"
                  /\ \E f \in bak_d'.files : f.name = now
        /\ (StepOf(p) /\ out_csv'.rows # out_csv.rows)
               => pc[p] \in LoopPcs
        /\ Ends(p, {"config_error"}) => pc[p] = "config"
        /\ (Ends(p, {"doexit"}) /\ exit_at' = "setup_lockfile")
               => pc[p] \in SetupPcs
      ]_vars

\* C19: process 2 took its lock, took the snapshot of its start and then
\* appended a row.
C19_Witness ==
    /\ pc[2] = "sleep"
    /\ lockfile.written /\ lockfile.pid = 2
    /\ \E f \in bak_d.files : f.name >= Epoch
    /\ Len(out_csv.rows) > 0

\* The columns the for loop of update_secondary_stats gives a store of one
\* chunk with the Kudos of samples, for the window w.
columns_of(samples, w) ==
    LET chunk == [i \in 1..Len(samples) |-> written_row(Epoch, samples[i])]
        out == process_chunk(chunk, w)
    IN [MA |-> [i \in 1..Len(out) |-> out[i].MA],
        D1 |-> [i \in 1..Len(out) |-> out[i].D1],
        MAD1 |-> [i \in 1..Len(out) |-> out[i].MAD1]]

\* Cell c holds the number n, or is absent where n = -1.
cell_is(c, n) ==
    IF n = -1 THEN ~c.def ELSE c.def /\ c.num = n * c.den

\* C20: after update_secondary_stats, MAD1 is absent at row 0 and at every
\* later row i it is the mean of the defined D1 values among the 15 most
\* recent rows ending at i (fewer when i < 14); for the samples [10,20,30]
\* with W=2 the columns are MA=[10,15,25], D1=[absent,10,10],
\* MAD1=[absent,10,10] (rows counted from 0 in the claim, from 1 here).
C20_MAD1OfFullSequence ==
    /\ st_pc = "plot_kudos" =>
          \A i \in 1..Len(out_csv.rows) :
              LET rows == out_csv.rows
                  D1 == [j \in 1..Len(rows) |-> rows[j].D1]
                  lo == Max(1, i - MAD1_WINDOW + 1)
                  n == CountDef(D1, lo, i)
              IN /\ i = 1 => ~rows[i].MAD1.def
                 /\ i > 1 => /\ rows[i].MAD1.def
                             /\ rows[i].MAD1.num * n =
                                    SumDef(D1, lo, i) * rows[i].MAD1.den
    /\ LET c == columns_of(<<10, 20, 30>>, 2)
       IN /\ \A i \in 1..3 : cell_is(c.MA[i], <<10, 15, 25>>[i])
          /\ \A i \in 1..3 : cell_is(c.D1[i], <<-1, 10, 10>>[i])
          /\ \A i \in 1..3 : cell_is(c.MAD1[i], <<-1, 10, 10>>[i])

=============================================================================
